---- MODULE Spec2Model ----
(***************************************************************************)
(* Housie/Tambola ticket generator of app.py: api_tickets,                 *)
(* generate_ticket_strict and _fallback_generate_ticket.                   *)
(*                                                                         *)
(* Rows are indexed 0..2 and columns 0..8 as in the source.  Python lists  *)
(* of fixed shape (rows, row_used, counts, ticket, cols) are functions on  *)
(* those index sets; a column pool is a sequence whose last element is the *)
(* one list.pop() removes.                                                 *)
(*                                                                         *)
(* Randomness is nondeterminism.  Every outcome of random.shuffle(blocks), *)
(* random.choice, random.sample, random.randrange and of the               *)
(* random.random() tie-breaks is explored.  random.shuffle of a column     *)
(* pool is explored over the bounded family of permutations ShuffleBy.     *)
(***************************************************************************)
EXTENDS Integers, Sequences, FiniteSets, Bags, TLC

\* ---------------------------------------------------------------- bounds
\* shuffle outcomes explored per ticket: seeds 0..MaxSeed
MaxSeed == 1
\* integer values of the "cards" parameter above the clamp limit: 61..60+MaxOver
MaxOver == 1

\* request threads of the license service: 1..MaxThreads
MaxThreads == 2
\* license-service requests started in a run
MaxServed == 4

\* ------------------------------------------------------ program constants
NumRows == 3
NumCols == 9
RowTarget == 5
MaxPerCol == 3
BaseExtras == 6
MaxAttempts == 40
\* mutant: range(5) for the inner loop
TicketsPerCardFive == 6 - 1
\* for __ in range(6)   (line 479)
TicketsPerCard == 6
MinCards == 1
MaxCards == 60
DefaultCards == 1

RowIdx == 0 .. (NumRows - 1)
ColIdx == 0 .. (NumCols - 1)

\* ---------------------------------------------------------------- helpers
\* mutant: range(lo, hi + 1), the upper bound taken as inclusive
RangeListInclusive(lo, hi) == [k \in 1 .. (hi - lo + 1) |-> lo + k - 1]

\* list(range(lo, hi))
RangeList(lo, hi) == [k \in 1 .. (hi - lo) |-> lo + k - 1]

\* mutant: column 0 built as range(1, 3)
ColRangesShortFirst ==
  [c \in 0 .. 8 |->
     IF c = 0 THEN << 1, 2 >>
     ELSE IF c = 8 THEN [k \in 1 .. 11 |-> 79 + k]
     ELSE [k \in 1 .. 10 |-> (10 * c) + k - 1]]

\* cols before shuffling (lines 493-497)
ColRanges ==
  [c \in ColIdx |->
     CASE c = 0 -> RangeList(1, 10)
       [] c = 1 -> RangeList(10, 20)
       [] c = 2 -> RangeList(20, 30)
       [] c = 3 -> RangeList(30, 40)
       [] c = 4 -> RangeList(40, 50)
       [] c = 5 -> RangeList(50, 60)
       [] c = 6 -> RangeList(60, 70)
       [] c = 7 -> RangeList(70, 80)
       [] c = 8 -> RangeList(80, 91)]

\* One outcome of random.shuffle(seq): the rotation of seq by k places.
ShuffleBy(seq, k) ==
  [n \in 1 .. Len(seq) |-> seq[((n - 1 + k) % Len(seq)) + 1]]

\* for c in cols: random.shuffle(c), the outcome selected by seed s
ShuffledCols(s) == [c \in ColIdx |-> ShuffleBy(ColRanges[c], s + c)]

\* insertion of x into an ascending sequence
RECURSIVE InsertAsc(_, _)
InsertAsc(x, seq) ==
  IF seq = << >> THEN << x >>
  ELSE IF x <= Head(seq) THEN << x >> \o seq
       ELSE << Head(seq) >> \o InsertAsc(x, Tail(seq))

\* sorted(seq) for a list of integers
RECURSIVE SortAsc(_)
SortAsc(seq) ==
  IF seq = << >> THEN << >> ELSE InsertAsc(Head(seq), SortAsc(Tail(seq)))

\* mutant: cols[ci][-1] read k times, nothing removed
PopsPeek(pool, k) == [n \in 1 .. k |-> pool[Len(pool)]]

\* [cols[ci].pop() for _ in range(k)]: the last k elements, last one first
Pops(pool, k) == [n \in 1 .. k |-> pool[Len(pool) - n + 1]]

\* what is left of the pool after k pops
AfterPops(pool, k) == SubSeq(pool, 1, Len(pool) - k)

\* sum(rows[rr][ci] for rr in range(3))
ColSum(rws, ci) == rws[0][ci] + rws[1][ci] + rws[2][ci]

\* rows[r][ci] = 1 ; row_used[r] += 1
Mark(rws, r, ci) == [rws EXCEPT ![r][ci] = 1]
Bump(used, r) == [used EXCEPT ![r] = @ + 1]

NoRows == [r \in RowIdx |-> [c \in ColIdx |-> 0]]
NoUsed == [r \in RowIdx |-> 0]
Ones == [c \in ColIdx |-> 1]
NoTicket == [r \in RowIdx |-> [c \in ColIdx |-> 0]]

\* ----------------------------------------------------- count assignment
\* The outcomes of random.shuffle(blocks): all orders of [0, 1, 2].
BlockOrders ==
  {p \in [1 .. 3 -> 0 .. 2] : \A a, b \in 1 .. 3 : a # b => p[a] # p[b]}

\* the columns of block b
BlockCols(b) == {3 * b, 3 * b + 1, 3 * b + 2}

\* the outcomes of random.sample([c0, c1, c2], 2), as sets {j1, j2}
Pairs(b) == {q \in SUBSET BlockCols(b) : Cardinality(q) = 2}

\* mutant: three_blocks = blocks[:1], one (3,1,1) block only
AssignCountsOneThree(blocks, pick, pair) ==
  [c \in 0 .. 8 |->
     IF (c \div 3) = blocks[1]
     THEN IF pick[c \div 3] = c THEN 3 ELSE 1
     ELSE IF c % 3 # 2 THEN 2 ELSE 1]

\* mutant: counts[j] += 1 in the (3,1,1) blocks
AssignCountsPlusOne(blocks, pick, pair) ==
  [c \in 0 .. 8 |->
     IF (c \div 3) \in {blocks[1], blocks[2]}
     THEN IF pick[c \div 3] = c THEN 1 + 1 ELSE 1
     ELSE IF c \in pair THEN 1 + 1 ELSE 1]

\* lines 504-519.  blocks: the shuffled block list; pick[b]: the column
\* random.choice takes in the (3,1,1) block b; pair: the two columns
\* random.sample takes in the (2,2,1) block.
AssignCounts(blocks, pick, pair) ==
  LET three_blocks == {blocks[1], blocks[2]}
  IN  [c \in ColIdx |->
         IF (c \div 3) \in three_blocks
         THEN IF pick[c \div 3] = c THEN 1 + 2 ELSE 1
         ELSE IF c \in pair THEN 1 + 1 ELSE 1]

\* ------------------------------------------------------------ row planner
\* mutant: key=lambda i: (counts[i], i), the minus sign lost
BeforeAscending(cnts, a, b) == cnts[a] < cnts[b] \/ (cnts[a] = cnts[b] /\ a < b)

\* order = sorted(range(9), key=lambda i: (-counts[i], i))   (line 530)
Before(cnts, a, b) == cnts[a] > cnts[b] \/ (cnts[a] = cnts[b] /\ a < b)

RECURSIVE InsertByKey(_, _, _)
InsertByKey(cnts, x, seq) ==
  IF seq = << >> THEN << x >>
  ELSE IF Before(cnts, x, Head(seq)) THEN << x >> \o seq
       ELSE << Head(seq) >> \o InsertByKey(cnts, x, Tail(seq))

RECURSIVE SortByKey(_, _)
SortByKey(cnts, seq) ==
  IF seq = << >> THEN << >>
  ELSE InsertByKey(cnts, Head(seq), SortByKey(cnts, Tail(seq)))

Order(cnts) == SortByKey(cnts, [n \in 1 .. NumCols |-> n - 1])

\* sorted(range(3), key=lambda r: (row_used[r], random.random())): every
\* order of the rows in which row_used does not decrease.
RowPerms ==
  {p \in [1 .. NumRows -> RowIdx] :
     \A a, b \in 1 .. NumRows : a # b => p[a] # p[b]}

\* mutant: sorted(..., reverse=True), the most-used rows first
RowOrdersDescending(used) ==
  {p \in RowPerms :
     \A a \in 1 .. 2 : used[p[a]] >= used[p[a + 1]]}

\* mutant: key=lambda r: (row_used[r], r), ties going to the lower row
RowOrdersByIndex(used) ==
  {p \in RowPerms :
     \A a \in 1 .. 2 :
        used[p[a]] < used[p[a + 1]]
          \/ (used[p[a]] = used[p[a + 1]] /\ p[a] < p[a + 1])}

\* mutant: key=lambda r: random.random(), row_used left out of the key
RowOrdersAny(used) == RowPerms

RowOrders(used) ==
  {p \in RowPerms :
     \A a \in 1 .. (NumRows - 1) : used[p[a]] <= used[p[a + 1]]}

\* The greedy loops over the sorted rows (lines 541-546, 552-557, 621-626,
\* 630-634), from position k of the row order p.  need = 2: stop when the
\* column holds 2; need = 1: stop after the first placement.  checkEmpty is
\* the test rows[r][ci] == 0, which only generate_ticket_strict makes.
RECURSIVE PlaceRows(_, _, _, _, _, _, _)
PlaceRows(p, k, rws, used, ci, need, checkEmpty) ==
  IF k > NumRows THEN [rows |-> rws, used |-> used, placed |-> FALSE]
  ELSE LET r == p[k]
       IN  IF (checkEmpty => rws[r][ci] = 0) /\ used[r] < RowTarget
           THEN LET rws2 == Mark(rws, r, ci)
                    used2 == Bump(used, r)
                IN  IF need = 1 \/ ColSum(rws2, ci) = 2
                    THEN [rows |-> rws2, used |-> used2, placed |-> TRUE]
                    ELSE PlaceRows(p, k + 1, rws2, used2, ci, need, checkEmpty)
           ELSE PlaceRows(p, k + 1, rws, used, ci, need, checkEmpty)

\* mutant: row_used[r] += 1 forgotten in the branch need == 3
PlaceAllNoBump(rws, used, ci) ==
  [rows |-> [r \in 0 .. 2 |-> [rws[r] EXCEPT ![ci] = 1]],
   used |-> used,
   placed |-> TRUE]

\* need == 3: all rows (lines 534-538, 614-617)
PlaceAll(rws, used, ci) ==
  [rows |-> [r \in RowIdx |-> [rws[r] EXCEPT ![ci] = 1]],
   used |-> [r \in RowIdx |-> used[r] + 1],
   placed |-> TRUE]

\* One iteration of "for ci in order" (lines 532-560): the possible results
\* of placing column ci, each with ok (False where the code sets ok = False).
PlaceColumn(rws, used, cnts, ci) ==
  IF cnts[ci] = 3
  THEN {[rows |-> PlaceAll(rws, used, ci).rows,
         used |-> PlaceAll(rws, used, ci).used, ok |-> TRUE]}
  ELSE IF cnts[ci] = 2
  THEN {LET res == PlaceRows(p, 1, rws, used, ci, 2, TRUE)
        IN  [rows |-> res.rows, used |-> res.used,
             ok |-> (ColSum(res.rows, ci) = 2)] : p \in RowOrders(used)}
  ELSE {LET res == PlaceRows(p, 1, rws, used, ci, 1, TRUE)
        IN  [rows |-> res.rows, used |-> res.used,
             ok |-> res.placed] : p \in RowOrders(used)}

\* The top-up loops of generate_ticket_strict (lines 566-577), from row r:
\* the possible results, over every random.choice(candidates).
RECURSIVE TopUp(_, _, _, _)
TopUp(r, rws, used, cnts) ==
  IF r >= NumRows THEN {[rows |-> rws, used |-> used, ok |-> TRUE]}
  ELSE IF used[r] < RowTarget
  THEN LET candidates ==
             {ci \in ColIdx : rws[r][ci] = 0 /\ ColSum(rws, ci) < cnts[ci]}
       IN  IF candidates = {}
           THEN {[rows |-> rws, used |-> used, ok |-> FALSE]}
           ELSE UNION {TopUp(r, Mark(rws, r, ci), Bump(used, r), cnts) :
                         ci \in candidates}
  ELSE TopUp(r + 1, rws, used, cnts)

\* mutant: the column sums compared with != in place of ==
ValidatesNever(okv, rws, used, cnts) ==
  /\ okv
  /\ used = [r \in 0 .. 2 |-> 5]
  /\ \A ci \in 0 .. 8 : ColSum(rws, ci) # cnts[ci]

\* line 580
Validates(okv, rws, used, cnts) ==
  /\ okv
  /\ used = [r \in RowIdx |-> RowTarget]
  /\ \A ci \in ColIdx : ColSum(rws, ci) = cnts[ci]

\* The top-up loops of _fallback_generate_ticket (lines 636-643), from row r.
RECURSIVE FbTopUp(_, _, _)
FbTopUp(r, rws, used) ==
  IF r >= NumRows THEN {[rows |-> rws, used |-> used]}
  ELSE IF used[r] < RowTarget
  THEN LET cands ==
             {ci \in ColIdx : rws[r][ci] = 0 /\ ColSum(rws, ci) < MaxPerCol}
       IN  IF cands = {}
           THEN FbTopUp(r + 1, rws, used)
           ELSE UNION {FbTopUp(r, Mark(rws, r, ci), Bump(used, r)) :
                         ci \in cands}
  ELSE FbTopUp(r + 1, rws, used)

\* ------------------------------------------------------------ grid filler
\* mutant: the top row left out, range(1, 3) in place of range(3)
RowIdxsFromOne(rws, ci) ==
  SortAsc(SelectSeq(<< 1, 2 >>, LAMBDA r : rws[r][ci] = 1))

\* r_idxs = [r for r in range(3) if rows[r][ci] == 1]; r_idxs.sort()
RowIdxs(rws, ci) ==
  SortAsc(SelectSeq(<< 0, 1, 2 >>, LAMBDA r : rws[r][ci] = 1))

\* mutant: the drawn numbers left in the order they were popped
DrawnUnsorted(pool, k) == [n \in 1 .. k |-> pool[Len(pool) - n + 1]]

\* nums = sorted([cols[ci].pop() for _ in range(k)])
Drawn(pool, k) == SortAsc(Pops(pool, k))

\* pop from an empty list, or nums[idx] past the end: IndexError
FillRaises(rws, cls, take) ==
  \E ci \in ColIdx :
     \/ Len(cls[ci]) < take[ci]
     \/ Len(RowIdxs(rws, ci)) > take[ci]

\* mutant: ticket[idx][ci] = nums[idx], the row index r not used
FillColumnByIdx(r_idxs, nums) ==
  [r \in 0 .. 2 |-> IF r + 1 <= Len(nums) THEN nums[r + 1] ELSE 0]

\* for idx, r in enumerate(r_idxs): ticket[r][ci] = nums[idx]
\* (lines 594-595, 651-652): column ci of the ticket, by row
FillColumn(r_idxs, nums) ==
  [r \in RowIdx |->
     IF \E idx \in 1 .. Len(r_idxs) : r_idxs[idx] = r
     THEN nums[CHOOSE idx \in 1 .. Len(r_idxs) : r_idxs[idx] = r]
     ELSE 0]

\* lines 589-595 and 646-652: take[ci] numbers are drawn for column ci;
\* the columns of the ticket
FillColumns(rws, cls, take) ==
  [ci \in ColIdx |->
     FillColumn(RowIdxs(rws, ci), Drawn(cls[ci], take[ci]))]

\* mutant: ticket[2 - r][ci] = nums[idx], the rows filled bottom-up
FillTicketBottomUp(column) ==
  [r \in 0 .. 2 |-> [ci \in 0 .. 8 |-> column[ci][2 - r]]]

\* the ticket, a list of rows, with the given columns
FillTicket(column) == [r \in RowIdx |-> [ci \in ColIdx |-> column[ci][r]]]

ColsAfterFill(cls, take) == [ci \in ColIdx |-> AfterPops(cls[ci], take[ci])]

\* ------------------------------------------------------------ api_tickets
\* The "cards" query parameter: absent, an integer literal, or other text.
Requests ==
  {<< "missing" >>, << "text", "abc" >>, << "text", "2.5" >>}
    \cup {<< "int", n >> : n \in (-1 .. 2) \cup (MaxCards .. (MaxCards + MaxOver))}

\* try: int(request.args.get("cards", 1)) except Exception: 1  (lines 472-475)
ParseCards(req) ==
  IF req[1] = "missing" THEN DefaultCards
  ELSE IF req[1] = "int" THEN req[2]
  ELSE DefaultCards

Min(a, b) == IF a < b THEN a ELSE b
Max(a, b) == IF a > b THEN a ELSE b

\* mutant: count = min(count, 60), the lower limit forgotten
ClampNoFloor(n) == IF n < 60 THEN n ELSE 60

\* count = max(1, min(count, 60))   (line 476)
Clamp(n) == Max(MinCards, Min(n, MaxCards))

\* the non-zero cells of a ticket, as a bag of numbers
RECURSIVE CellsBag(_, _)
CellsBag(t, n) ==
  IF n >= NumRows * NumCols THEN EmptyBag
  ELSE LET v == t[n \div NumCols][n % NumCols]
       IN  IF v = 0 THEN CellsBag(t, n + 1)
           ELSE SetToBag({v}) (+) CellsBag(t, n + 1)

TicketBag(t) == CellsBag(t, 0)

\* ------------------------------------------------------------------ state
VARIABLES
  entry,     \* the function the run entered first
  cards,     \* the request's "cards" parameter (api_tickets)
  count,     \* api_tickets: count
  i,         \* api_tickets: cards completed (outer loop index)
  j,         \* api_tickets: tickets of the current card (inner loop index)
  nAll,      \* len(all_tickets)
  strip,     \* the numbers of the current card's tickets, as a bag
  pc,        \* control point
  cols,      \* the nine column pools
  counts,    \* numbers per column
  extras,    \* _fallback_generate_ticket: extras
  attempt,   \* iterations of "for _attempt in range(40)" started
  pos,       \* columns of the current loop already visited
  rows,      \* occupancy matrix
  row_used,  \* cells placed per row
  ok,        \* generate_ticket_strict: ok
  ticket     \* the ticket being returned


apiVars == << cards, count, i, j, nAll, strip >>

\* The license-code service of app.py (validate, admin_add_code,
\* admin_reset_code) over the sqlite tables codes and activations.
VARIABLES
  codes,        \* table codes: its rows in rowid (insertion) order
  activations,  \* table activations: the set of (Code, DeviceID) rows
  lock,         \* lock = Lock(): the thread holding it, or 0
  lpc,          \* per request thread: control point
  loc,          \* per request thread: the locals of its handler
  reply,        \* per request thread: the response being returned
  served,       \* requests started
  atAcquire,    \* history: the tables when the lock was last acquired
  lastReset     \* history: the code reset by the request that last held
                \* the lock, if that was an admin_reset_code of a stored code

licVars ==
  << codes, activations, lock, lpc, loc, reply, served, atAcquire, lastReset >>

ticketVars ==
  << entry, cards, count, i, j, nAll, strip, pc, cols, counts, extras,
     attempt, pos, rows, row_used, ok, ticket >>

NoRequest == << "none" >>

vars == << ticketVars, licVars >>

\* the server's request threads
Threads == 1 .. MaxThreads

\* a thread's locals outside a handler; the service before its first request
NoLocals ==
  [handler |-> "none", code |-> << >>, raw_norm |-> << >>, device_id |-> "",
   buyer |-> "", row |-> << >>, pend |-> << >>]

NoLicense ==
  /\ codes = << >>
  /\ activations = {}
  /\ lock = 0
  /\ lpc = [t \in Threads |-> "idle"]
  /\ loc = [t \in Threads |-> NoLocals]
  /\ reply = [t \in Threads |-> "none"]
  /\ served = 0
  /\ atAcquire = [codes |-> << >>, activations |-> {}]
  /\ lastReset = << >>


\* the locals of a generate_ticket_strict call before its first statement
FreshFrame ==
  /\ cols = ColRanges
  /\ counts = Ones
  /\ extras = 0
  /\ attempt = 0
  /\ pos = 0
  /\ rows = NoRows
  /\ row_used = NoUsed
  /\ ok = TRUE
  /\ ticket = NoTicket

NoApi ==
  /\ cards = NoRequest
  /\ count = 0
  /\ i = 0
  /\ j = 0
  /\ nAll = 0
  /\ strip = EmptyBag

\* a call of generate_ticket_strict()
InitStrict ==
  /\ entry = "generate_ticket_strict"
  /\ NoLicense
  /\ pc = "shuffle"
  /\ NoApi
  /\ FreshFrame

\* a call of _fallback_generate_ticket(cols) with the shuffled pools that
\* line 585 passes, at its first statement (lines 602-603 done)
InitFallback ==
  /\ entry = "_fallback_generate_ticket"
  /\ NoLicense
  /\ pc = "fb_counts"
  /\ NoApi
  /\ cols = ShuffledCols(0)
  /\ counts = Ones
  /\ extras = BaseExtras
  /\ attempt = 0
  /\ pos = 0
  /\ rows = NoRows
  /\ row_used = NoUsed
  /\ ok = TRUE
  /\ ticket = NoTicket

Init == InitStrict \/ InitFallback

\* a GET /api/tickets request
InitApi ==
  /\ entry = "api_tickets"
  /\ NoLicense
  /\ pc = "request"
  /\ cards \in Requests
  /\ count = 0
  /\ i = 0
  /\ j = 0
  /\ nAll = 0
  /\ strip = EmptyBag
  /\ FreshFrame

\* ------------------------------------------------- generate_ticket_strict
\* lines 498-499
Shuffle ==
  /\ pc = "shuffle"
  /\ \E s \in 0 .. MaxSeed : cols' = ShuffledCols(s)
  /\ pc' = "counts"
  /\ UNCHANGED << licVars, entry, apiVars, counts, extras, attempt, pos, rows,
                  row_used, ok, ticket >>

\* lines 504-519
ChooseCounts ==
  /\ pc = "counts"
  /\ \E blocks \in BlockOrders :
        \E j1 \in BlockCols(blocks[1]), j2 \in BlockCols(blocks[2]),
           pair \in Pairs(blocks[3]) :
           counts' = AssignCounts(blocks,
                                  (blocks[1] :> j1) @@ (blocks[2] :> j2), pair)
  /\ pc' = "attempt"
  /\ UNCHANGED << licVars, entry, apiVars, cols, extras, attempt, pos, rows,
                  row_used, ok, ticket >>

\* line 524 with lines 525-530; when range(40) is used up, the else branch
\* (line 585) calls _fallback_generate_ticket(cols), whose lines 602-603 run
AttemptStart ==
  /\ pc = "attempt"
  /\ IF attempt < MaxAttempts
     THEN /\ attempt' = attempt + 1
          /\ rows' = NoRows
          /\ row_used' = NoUsed
          /\ ok' = TRUE
          /\ pos' = 0
          /\ pc' = "place"
          /\ UNCHANGED << counts, extras >>
     ELSE /\ counts' = Ones
          /\ extras' = BaseExtras
          /\ pc' = "fb_counts"
          /\ UNCHANGED << attempt, rows, row_used, ok, pos >>
  /\ UNCHANGED << licVars, entry, apiVars, cols, ticket >>

\* one iteration of "for ci in order" (lines 532-560)
PlaceStep ==
  /\ pc = "place"
  /\ ok
  /\ pos < NumCols
  /\ \E out \in PlaceColumn(rows, row_used, counts, Order(counts)[pos + 1]) :
        /\ rows' = out.rows
        /\ row_used' = out.used
        /\ ok' = out.ok
  /\ pos' = pos + 1
  /\ UNCHANGED << licVars, entry, apiVars, pc, cols, counts, extras, attempt, ticket >>

\* lines 562-581: continue, or top up and validate
FinishAttempt ==
  /\ pc = "place"
  /\ ~ok \/ pos = NumCols
  /\ IF ~ok
     THEN /\ pc' = "attempt"
          /\ UNCHANGED << rows, row_used, ok >>
     ELSE \E out \in TopUp(0, rows, row_used, counts) :
            /\ rows' = out.rows
            /\ row_used' = out.used
            /\ ok' = out.ok
            /\ pc' = IF Validates(out.ok, out.rows, out.used, counts)
                     THEN "fill" ELSE "attempt"
  /\ UNCHANGED << licVars, entry, apiVars, cols, counts, extras, attempt, pos, ticket >>

\* lines 588-595
Fill ==
  /\ pc = "fill"
  /\ IF FillRaises(rows, cols, counts)
     THEN /\ pc' = "error"
          /\ UNCHANGED << cols, ticket >>
     ELSE /\ \E column \in {FillColumns(rows, cols, counts)} :
               ticket' = FillTicket(column)
          /\ cols' = ColsAfterFill(cols, counts)
          /\ pc' = "return"
  /\ UNCHANGED << licVars, entry, apiVars, counts, extras, attempt, pos, rows,
                  row_used, ok >>

\* ---------------------------------------------- _fallback_generate_ticket
\* mutant: the test counts[i] < 3 forgotten
IncrementUncapped(cnts, ext, c) ==
  [counts |-> [cnts EXCEPT ![c] = @ + 1], extras |-> ext - 1]

\* mutant: extras -= 1 forgotten
IncrementNoDecrement(cnts, ext, c) ==
  IF cnts[c] < 3
  THEN [counts |-> [cnts EXCEPT ![c] = @ + 1], extras |-> ext]
  ELSE [counts |-> cnts, extras |-> ext]

\* lines 606-608, for the column i = c that random.randrange(9) returned
Increment(cnts, ext, c) ==
  IF cnts[c] < MaxPerCol
  THEN [counts |-> [cnts EXCEPT ![c] = @ + 1], extras |-> ext - 1]
  ELSE [counts |-> cnts, extras |-> ext]

\* one iteration of "while extras > 0" (lines 604-608)
FbIncrement ==
  /\ pc = "fb_counts"
  /\ extras > 0
  /\ \E c \in ColIdx :
        /\ counts' = Increment(counts, extras, c).counts
        /\ extras' = Increment(counts, extras, c).extras
  /\ UNCHANGED << licVars, entry, apiVars, pc, cols, attempt, pos, rows, row_used, ok,
                  ticket >>

\* mutant: enumerate(counts[:8]), the last column never visited
PendingButLast(n, p) == {c \in 0 .. 7 : c >= p /\ counts[c] = n}

\* the columns a loop "for ci, cnt in enumerate(counts): if cnt == n" has
\* still to place when it has visited the columns below p
Pending(n, p) == {c \in ColIdx : c >= p /\ counts[c] = n}
NextPending(n, p) == CHOOSE c \in Pending(n, p) : \A d \in Pending(n, p) : c <= d

\* Where control is once loop n has placed its columns below p: in loop n
\* while it has a column to place, else at the head of the next loop with a
\* column to place, else at the top-up (line 636).  Iterations that place
\* nothing change no variable of the program and are passed over.
AfterColumn(n, p) ==
  IF Pending(n, p) # {}
  THEN [pc |-> IF n = 3 THEN "fb3" ELSE IF n = 2 THEN "fb2" ELSE "fb1",
        pos |-> p]
  ELSE IF n = 3
  THEN IF Pending(2, 0) # {} THEN [pc |-> "fb2", pos |-> 0]
       ELSE IF Pending(1, 0) # {} THEN [pc |-> "fb1", pos |-> 0]
       ELSE [pc |-> "fb_fill", pos |-> 0]
  ELSE IF n = 2
  THEN IF Pending(1, 0) # {} THEN [pc |-> "fb1", pos |-> 0]
       ELSE [pc |-> "fb_fill", pos |-> 0]
  ELSE [pc |-> "fb_fill", pos |-> 0]

\* lines 610-611, up to the first column a loop places
FbStartRows ==
  /\ pc = "fb_counts"
  /\ extras = 0
  /\ rows' = NoRows
  /\ row_used' = NoUsed
  /\ pos' = 0
  /\ pc' = AfterColumn(3, 0).pc
  /\ UNCHANGED << licVars, entry, apiVars, cols, counts, extras, attempt, ok, ticket >>

\* lines 613-617: the next column with cnt == 3
FbThrees ==
  /\ pc = "fb3"
  /\ \E ci \in {NextPending(3, pos)} :
        /\ \E out \in {PlaceAll(rows, row_used, ci)} :
              /\ rows' = out.rows
              /\ row_used' = out.used
        /\ \E to \in {AfterColumn(3, ci + 1)} :
              /\ pos' = to.pos
              /\ pc' = to.pc
  /\ UNCHANGED << licVars, entry, apiVars, cols, counts, extras, attempt, ok, ticket >>

\* lines 619-626: the next column with cnt == 2
FbTwos ==
  /\ pc = "fb2"
  /\ \E ci \in {NextPending(2, pos)} :
        /\ \E out \in {PlaceRows(p, 1, rows, row_used, ci, 2, FALSE) :
                          p \in RowOrders(row_used)} :
              /\ rows' = out.rows
              /\ row_used' = out.used
        /\ \E to \in {AfterColumn(2, ci + 1)} :
              /\ pos' = to.pos
              /\ pc' = to.pc
  /\ UNCHANGED << licVars, entry, apiVars, cols, counts, extras, attempt, ok, ticket >>

\* lines 628-634: the next column with cnt == 1
FbOnes ==
  /\ pc = "fb1"
  /\ \E ci \in {NextPending(1, pos)} :
        /\ \E out \in {PlaceRows(p, 1, rows, row_used, ci, 1, FALSE) :
                          p \in RowOrders(row_used)} :
              /\ rows' = out.rows
              /\ row_used' = out.used
        /\ \E to \in {AfterColumn(1, ci + 1)} :
              /\ pos' = to.pos
              /\ pc' = to.pc
  /\ UNCHANGED << licVars, entry, apiVars, cols, counts, extras, attempt, ok, ticket >>

\* need = sum(rows[r][ci] for r in range(3))   (line 647)
ColSums(rws) == [ci \in ColIdx |-> ColSum(rws, ci)]

\* lines 636-652: top up, then fill
FbFill ==
  /\ pc = "fb_fill"
  /\ \E out \in FbTopUp(0, rows, row_used) :
        /\ rows' = out.rows
        /\ row_used' = out.used
        /\ \E need \in {ColSums(out.rows)} :
              IF FillRaises(out.rows, cols, need)
              THEN /\ pc' = "error"
                   /\ UNCHANGED << cols, ticket >>
              ELSE /\ \E column \in {FillColumns(out.rows, cols, need)} :
                        ticket' = FillTicket(column)
                   /\ cols' = ColsAfterFill(cols, need)
                   /\ pc' = "return"
  /\ UNCHANGED << licVars, entry, apiVars, counts, extras, attempt, pos, ok >>

\* ------------------------------------------------------------ api_tickets
\* lines 472-477
ApiRequest ==
  /\ pc = "request"
  /\ count' = Clamp(ParseCards(cards))
  /\ nAll' = 0
  /\ i' = 0
  /\ j' = 0
  /\ strip' = EmptyBag
  /\ pc' = "loop"
  /\ UNCHANGED << licVars, entry, cards, cols, counts, extras, attempt, pos, rows,
                  row_used, ok, ticket >>

\* mutant: cols built once at module level; a call finds the pools as the
\* call before left them
NewPoolsLeftOver == cols

\* cols = [list(range(1,10)), ...]: the list a call of generate_ticket_strict
\* builds (lines 493-497)
NewPools == ColRanges

\* lines 478-481: the loop heads; a call of generate_ticket_strict starts
\* with fresh locals, a finished card starts the next one, and after the
\* last card the response is returned
ApiLoop ==
  /\ pc = "loop"
  /\ IF i < count /\ j < TicketsPerCard
     THEN /\ pc' = "shuffle"
          /\ cols' = NewPools
          /\ counts' = Ones
          /\ extras' = 0
          /\ attempt' = 0
          /\ pos' = 0
          /\ rows' = NoRows
          /\ row_used' = NoUsed
          /\ ok' = TRUE
          /\ ticket' = NoTicket
          /\ UNCHANGED << i, j, strip >>
     ELSE IF i < count
     THEN /\ i' = i + 1
          /\ j' = 0
          /\ strip' = EmptyBag
          /\ pc' = IF i + 1 < count THEN "loop" ELSE "responded"
          /\ UNCHANGED << cols, counts, extras, attempt, pos, rows, row_used,
                          ok, ticket >>
     ELSE /\ pc' = "responded"
          /\ UNCHANGED << i, j, strip, cols, counts, extras, attempt, pos,
                          rows, row_used, ok, ticket >>
  /\ UNCHANGED << licVars, entry, cards, count, nAll >>

\* all_tickets.append(generate_ticket_strict())   (line 480): the call has
\* returned its ticket (lines 597, 585, 653)
ApiAppend ==
  /\ pc = "return"
  /\ entry = "api_tickets"
  /\ nAll' = nAll + 1
  /\ j' = j + 1
  /\ strip' = strip (+) TicketBag(ticket)
  /\ pc' = "loop"
  /\ UNCHANGED << licVars, entry, cards, count, i, cols, counts, extras, attempt, pos,
                  rows, row_used, ok, ticket >>

\* ------------------------------------------------- license-code service
\* Strings are sequences of one-character strings.  A request parameter is
\* << "none" >> (absent, None), << "num" >> (a JSON value that is not a
\* string) or << "str", s >>.
MAX_DEVICES_DEFAULT == 1
SECURE_BODY_LEN == 16

IsAlpha(ch) == ch \in {"A", "B", "a", "b"}
IsAlnum(ch) == IsAlpha(ch) \/ ch = "1"

\* str.upper()
Upper(ch) == IF ch = "a" THEN "A" ELSE IF ch = "b" THEN "B" ELSE ch
UpperStr(s) == [n \in 1 .. Len(s) |-> Upper(s[n])]

\* str.strip()
RECURSIVE StripLeft(_)
StripLeft(s) ==
  IF s # << >> /\ Head(s) = " " THEN StripLeft(Tail(s)) ELSE s

RECURSIVE StripRight(_)
StripRight(s) ==
  IF s # << >> /\ s[Len(s)] = " "
  THEN StripRight(SubSeq(s, 1, Len(s) - 1)) ELSE s

Strip(s) == StripRight(StripLeft(s))

\* re.sub(r"[^A-Za-z0-9]", "", s) and re.sub(r"[^A-Z0-9]", "", s)
KeepAlnum(s) == SelectSeq(s, IsAlnum)
KeepUpperAlnum(s) == SelectSeq(s, LAMBDA ch : ch \in {"A", "B", "1"})

\* first, *rest = raw.split("-"); "-".join(rest)
DashAt(s) == {n \in 1 .. Len(s) : s[n] = "-"}
FirstDash(s) == CHOOSE n \in DashAt(s) : \A m \in DashAt(s) : n <= m
FirstSegment(s) == SubSeq(s, 1, FirstDash(s) - 1)
AfterFirstDash(s) == SubSeq(s, FirstDash(s) + 1, Len(s))

\* str.isalpha()
IsAlphaStr(s) == s # << >> /\ \A n \in 1 .. Len(s) : IsAlpha(s[n])

\* s[-n:] if len(s) > n else s
LastChars(s, n) == IF Len(s) > n THEN SubSeq(s, Len(s) - n + 1, Len(s)) ELSE s

\* (v or ""): None and the empty string give ""
OrEmpty(v) == IF v[1] = "str" THEN v[2] ELSE << >>

\* to_canonical of a string (lines 82-91)
CanonicalOf(str) ==
  LET raw == Strip(str)
      cut == IF DashAt(raw) # {} /\ IsAlphaStr(FirstSegment(raw))
                /\ Len(FirstSegment(raw)) <= 4
             THEN AfterFirstDash(raw) ELSE raw
  IN  IF raw = << >> THEN << >>
      ELSE LastChars(UpperStr(KeepAlnum(cut)), SECURE_BODY_LEN)

\* to_canonical(code_str) for None or a string
to_canonical(v) == CanonicalOf(OrEmpty(v))

\* normalize_code(s) (lines 70-72)
normalize_code(v) == KeepUpperAlnum(UpperStr(Strip(OrEmpty(v))))

\* UPPER(REPLACE(Code,'-',''))
SqlCanon(code) == UpperStr(SelectSeq(code, LAMBDA ch : ch # "-"))

\* substr(s, -n) of sqlite for n >= 1: the last n characters, all of s when
\* s is shorter
SqlSubstrLast(s, n) == LastChars(s, n)

\* the WHERE clause of lines 222-223
RowMatches(row, code, raw_norm) ==
  \/ SqlCanon(row.Code) = UpperStr(code)
  \/ SqlCanon(row.Code) =
       UpperStr(SqlSubstrLast(raw_norm, Len(SqlCanon(row.Code))))

\* SELECT ... LIMIT 1 .fetchone() (lines 219-225): the first matching row of
\* the table scan, as a list of at most one row
SelectRow(tbl, code, raw_norm) ==
  LET hits == SelectSeq(tbl, LAMBDA row : RowMatches(row, code, raw_norm))
  IN  IF hits = << >> THEN << >> ELSE << hits[1] >>

\* _get_max_devices(row) (lines 175-179)
GetMaxDevices(row) == row.MaxDevices

\* SELECT COUNT(*) FROM activations WHERE Code=?   (line 252)
CountActivations(acts, code) == Cardinality({a \in acts : a[1] = code})

\* ---- statements, as applied to the tables [codes, activations] at commit
\* INSERT OR IGNORE INTO activations (line 258)
InsertActivation(t, code, dev) ==
  [t EXCEPT !.activations = @ \cup {<< code, dev >>}]

\* UPDATE codes SET Used='Yes', BuyerName=COALESCE(?, BuyerName) WHERE Code=?
MarkUsed(t, code, buyer) ==
  [t EXCEPT !.codes =
     [n \in 1 .. Len(@) |->
        IF @[n].Code = code
        THEN [@[n] EXCEPT !.Used = "Yes", !.BuyerName = buyer]
        ELSE @[n]]]

\* INSERT INTO codes ... ON CONFLICT(Code) DO UPDATE (lines 290-296)
UpsertCode(t, code, buyer, expiry, maxdev) ==
  IF \E n \in 1 .. Len(t.codes) : t.codes[n].Code = code
  THEN [t EXCEPT !.codes =
          [n \in 1 .. Len(@) |->
             IF @[n].Code = code
             THEN [Code |-> code, Used |-> "No", BuyerName |-> buyer,
                   Expiry |-> expiry, MaxDevices |-> maxdev]
             ELSE @[n]]]
  ELSE [t EXCEPT !.codes =
          Append(@, [Code |-> code, Used |-> "No", BuyerName |-> buyer,
                     Expiry |-> expiry, MaxDevices |-> maxdev])]

\* UPDATE codes SET Used='No' WHERE UPPER(REPLACE(Code,'-',''))=UPPER(?)
ResetUsed(t, norm) ==
  [t EXCEPT !.codes =
     [n \in 1 .. Len(@) |->
        IF SqlCanon(@[n].Code) = UpperStr(norm)
        THEN [@[n] EXCEPT !.Used = "No"] ELSE @[n]]]

\* DELETE FROM activations WHERE UPPER(REPLACE(Code,'-',''))=UPPER(?)
DeleteActivations(t, norm) ==
  [t EXCEPT !.activations =
     {a \in @ : SqlCanon(a[1]) # UpperStr(norm)}]

\* one pending statement of a connection's transaction
ApplyOp(t, op) ==
  CASE op.op = "insert_activation" -> InsertActivation(t, op.code, op.dev)
    [] op.op = "mark_used" -> MarkUsed(t, op.code, op.buyer)
    [] op.op = "upsert" ->
         UpsertCode(t, op.code, op.buyer, op.expiry, op.maxdev)
    [] op.op = "reset_used" -> ResetUsed(t, op.code)
    [] op.op = "delete_activations" -> DeleteActivations(t, op.code)

\* conn.commit(): the transaction's statements take effect, in order
RECURSIVE Commit(_, _)
Commit(t, ops) ==
  IF ops = << >> THEN t ELSE Commit(ApplyOp(t, Head(ops)), Tail(ops))

\* mutant: the statements executed before the exception are kept
OnExceptionKeepsWrites(t, ops) == Commit(t, ops)

\* with sqlite3.connect(...) as conn, left by an exception: rollback, the
\* transaction's statements are discarded
OnException(t, ops) == t

\* ---- requests
\* MASTER_CODE = os.environ.get("MASTER_CODE", "").strip()   (line 33)
MASTER_CODE == << >>

\* values of the "code" parameter
CodeParams ==
  {<< "none" >>, << "num" >>, << "str", << " ", "a" >> >>,
   << "str", << "B", "A" >> >>, << "str", << "B", "-", "A" >> >>}

\* device_id after lines 190/194; buyer after lines 189/193
Devices == {"", "d1", "d2"}
Buyers == {"", "bob"}

\* buyer after line 283: the admin requests of a run carry no buyer
AdminBuyers == {""}

\* values of the "days" and "max_devices" parameters; 0 stands for absent
DaysParams == {0, -1}
MaxDevicesParams == {0, 2}

\* int(data.get("days") or 30); int(data.get("max_devices") or MAX_DEVICES_DEFAULT)
DaysOf(d) == IF d = 0 THEN 30 ELSE d
MaxDevicesOf(m) == IF m = 0 THEN MAX_DEVICES_DEFAULT ELSE m

\* (datetime.utcnow() + timedelta(days=days)).isoformat() + "Z", as it
\* compares with datetime.utcnow() of a later request (line 236): the
\* requests of a run are taken within a day
ExpiryOf(days) == IF days > 0 THEN "future" ELSE "past"

\* expiry <= datetime.utcnow()   (line 236)
Expired(row) == row.Expiry = "past"

Tables == [codes |-> codes, activations |-> activations]

\* the service after init_db() with no CSV file, no request in progress
InitLicense ==
  /\ entry = "license"
  /\ pc = "none"
  /\ NoApi
  /\ FreshFrame
  /\ NoLicense

\* lock.acquire() can return
LockFree == lock = 0

\* a handler returns response r without entering "with lock"
Respond(t, h, r) ==
  /\ reply' = [reply EXCEPT ![t] = r]
  /\ lpc' = [lpc EXCEPT ![t] = "exit"]
  /\ loc' = [loc EXCEPT ![t] = [NoLocals EXCEPT !.handler = h]]
  /\ UNCHANGED << codes, activations, lock, atAcquire, lastReset >>

\* "with lock, sqlite3.connect(DB_FILE) as conn" is entered
Enter(t, to, locals) ==
  /\ LockFree
  /\ lock' = t
  /\ atAcquire' = Tables
  /\ lpc' = [lpc EXCEPT ![t] = to]
  /\ loc' = [loc EXCEPT ![t] = locals]
  /\ UNCHANGED << codes, activations, reply, lastReset >>

\* a statement inside the with block that returns response r
Return(t, r) ==
  /\ reply' = [reply EXCEPT ![t] = r]
  /\ lpc' = [lpc EXCEPT ![t] = "exit"]
  /\ UNCHANGED << codes, activations, lock, loc, atAcquire, lastReset >>

\* a statement inside the with block that goes on to control point to
Goto(t, to, locals) ==
  /\ lpc' = [lpc EXCEPT ![t] = to]
  /\ loc' = [loc EXCEPT ![t] = locals]
  /\ UNCHANGED << codes, activations, lock, reply, atAcquire, lastReset >>

\* conn.commit() followed by the return of response r
CommitAndReturn(t, r) ==
  /\ \E after \in {Commit(Tables, loc[t].pend)} :
        /\ codes' = after.codes
        /\ activations' = after.activations
  /\ reply' = [reply EXCEPT ![t] = r]
  /\ lpc' = [lpc EXCEPT ![t] = "exit"]
  /\ loc' = [loc EXCEPT ![t].pend = << >>]
  /\ UNCHANGED << lock, atAcquire, lastReset >>

\* ---- validate (lines 184-275)
\* lines 185-212, and line 214 when no early return is taken
validate_begin(t) ==
  /\ lpc[t] = "idle"
  /\ served < MaxServed
  /\ served' = served + 1
  /\ \E raw_code \in CodeParams, device_id \in Devices, buyer \in Buyers :
        IF raw_code = << "num" >>
        THEN Respond(t, "validate", "server_error")
        ELSE IF to_canonical(raw_code) = << >>
        THEN Respond(t, "validate", "empty_code")
        ELSE IF device_id = ""
        THEN Respond(t, "validate", "missing_device_id")
        ELSE IF MASTER_CODE # << >>
                /\ to_canonical(raw_code) = CanonicalOf(MASTER_CODE)
        THEN Respond(t, "validate", "master")
        ELSE Enter(t, "select",
                   [NoLocals EXCEPT !.handler = "validate",
                                    !.code = to_canonical(raw_code),
                                    !.raw_norm = normalize_code(raw_code),
                                    !.device_id = device_id,
                                    !.buyer = buyer])
  /\ UNCHANGED ticketVars

\* lines 219-228
validate_select(t) ==
  /\ lpc[t] = "select"
  /\ \E row \in {SelectRow(codes, loc[t].code, loc[t].raw_norm)} :
        IF row = << >>
        THEN Return(t, "not_found")
        ELSE Goto(t, "expiry", [loc[t] EXCEPT !.row = row])
  /\ UNCHANGED << served, ticketVars >>

\* lines 231-237
validate_expiry(t) ==
  /\ lpc[t] = "expiry"
  /\ IF Expired(loc[t].row[1])
     THEN Return(t, "expired")
     ELSE Goto(t, "already", loc[t])
  /\ UNCHANGED << served, ticketVars >>

\* lines 240-249
validate_already(t) ==
  /\ lpc[t] = "already"
  /\ IF << loc[t].row[1].Code, loc[t].device_id >> \in activations
     THEN Return(t, "ok_same_device")
     ELSE Goto(t, "limit", loc[t])
  /\ UNCHANGED << served, ticketVars >>

\* lines 252-255
validate_limit(t) ==
  /\ lpc[t] = "limit"
  /\ IF CountActivations(activations, loc[t].row[1].Code)
          >= GetMaxDevices(loc[t].row[1])
     THEN Return(t, "device_limit")
     ELSE Goto(t, "insert", loc[t])
  /\ UNCHANGED << served, ticketVars >>

\* lines 258-259
validate_insert(t) ==
  /\ lpc[t] = "insert"
  /\ Goto(t, "update",
          [loc[t] EXCEPT !.pend =
             Append(@, [op |-> "insert_activation",
                        code |-> loc[t].row[1].Code,
                        dev |-> loc[t].device_id])])
  /\ UNCHANGED << served, ticketVars >>

\* lines 260-262
validate_update(t) ==
  /\ lpc[t] = "update"
  /\ IF loc[t].row[1].Used # "Yes"
     THEN Goto(t, "commit",
               [loc[t] EXCEPT !.pend =
                  Append(@, [op |-> "mark_used",
                             code |-> loc[t].row[1].Code,
                             buyer |-> loc[t].buyer])])
     ELSE Goto(t, "commit", loc[t])
  /\ UNCHANGED << served, ticketVars >>

\* lines 263-271
validate_commit(t) ==
  /\ lpc[t] = "commit"
  /\ CommitAndReturn(t, "ok_new_device")
  /\ UNCHANGED << served, ticketVars >>

\* A write statement or the commit raises sqlite3.Error: the with block is
\* left by the exception and line 273 answers server_error.
validate_raises(t) ==
  /\ lpc[t] \in {"insert", "update", "commit"}
  /\ \E after \in {OnException(Tables, loc[t].pend)} :
        /\ codes' = after.codes
        /\ activations' = after.activations
  /\ reply' = [reply EXCEPT ![t] = "server_error"]
  /\ lpc' = [lpc EXCEPT ![t] = "exit"]
  /\ loc' = [loc EXCEPT ![t].pend = << >>]
  /\ UNCHANGED << lock, atAcquire, lastReset, served, ticketVars >>

\* ---- admin_add_code (lines 279-298)
\* lines 280-288; authorized is _auth_ok(request)
admin_add_code_begin(t) ==
  /\ lpc[t] = "idle"
  /\ served < MaxServed
  /\ served' = served + 1
  /\ \E authorized \in BOOLEAN, raw_code \in CodeParams \ {<< "num" >>},
        buyer \in AdminBuyers, days \in DaysParams, max_devices \in MaxDevicesParams :
        IF ~authorized
        THEN Respond(t, "admin_add_code", "unauthorized")
        ELSE IF to_canonical(raw_code) = << >>
        THEN Respond(t, "admin_add_code", "missing_code")
        ELSE Enter(t, "add_upsert",
                   [NoLocals EXCEPT
                      !.handler = "admin_add_code",
                      !.code = to_canonical(raw_code),
                      !.pend = << [op |-> "upsert",
                                   code |-> to_canonical(raw_code),
                                   buyer |-> buyer,
                                   expiry |-> ExpiryOf(DaysOf(days)),
                                   maxdev |-> MaxDevicesOf(max_devices)] >>])
  /\ UNCHANGED ticketVars

\* lines 290-298: the statement was executed on entry; commit and return
admin_add_code_commit(t) ==
  /\ lpc[t] = "add_upsert"
  /\ CommitAndReturn(t, "ok_added")
  /\ UNCHANGED << served, ticketVars >>

\* ---- admin_reset_code (lines 422-433)
\* lines 423-428
admin_reset_code_begin(t) ==
  /\ lpc[t] = "idle"
  /\ served < MaxServed
  /\ served' = served + 1
  /\ \E authorized \in BOOLEAN, raw \in CodeParams \ {<< "num" >>} :
        IF ~authorized
        THEN Respond(t, "admin_reset_code", "unauthorized")
        ELSE IF OrEmpty(raw) = << >>
        THEN Respond(t, "admin_reset_code", "missing_code")
        ELSE Enter(t, "reset_update",
                   [NoLocals EXCEPT !.handler = "admin_reset_code",
                                    !.code = to_canonical(raw)])
  /\ UNCHANGED ticketVars

\* line 430
admin_reset_code_update(t) ==
  /\ lpc[t] = "reset_update"
  /\ Goto(t, "reset_delete",
          [loc[t] EXCEPT !.pend =
             Append(@, [op |-> "reset_used", code |-> loc[t].code])])
  /\ UNCHANGED << served, ticketVars >>

\* line 431
admin_reset_code_delete(t) ==
  /\ lpc[t] = "reset_delete"
  /\ Goto(t, "reset_commit",
          [loc[t] EXCEPT !.pend =
             Append(@, [op |-> "delete_activations", code |-> loc[t].code])])
  /\ UNCHANGED << served, ticketVars >>

\* lines 432-433
admin_reset_code_commit(t) ==
  /\ lpc[t] = "reset_commit"
  /\ CommitAndReturn(t, "ok_reset")
  /\ UNCHANGED << served, ticketVars >>

\* The with block is left (the lock is released if held) and the response
\* goes out; the thread is free for the next request.
handler_exit(t) ==
  /\ lpc[t] = "exit"
  /\ lock' = IF lock = t THEN 0 ELSE lock
  /\ lpc' = [lpc EXCEPT ![t] = "idle"]
  /\ loc' = [loc EXCEPT ![t] = NoLocals]
  /\ reply' = [reply EXCEPT ![t] = "none"]
  /\ lastReset' =
       IF lock # t THEN lastReset
       ELSE IF /\ loc[t].handler = "admin_reset_code"
               /\ reply[t] = "ok_reset"
               /\ \E n \in 1 .. Len(codes) :
                     SqlCanon(codes[n].Code) = UpperStr(loc[t].code)
            THEN loc[t].code
            ELSE << >>
  /\ UNCHANGED << codes, activations, served, atAcquire, ticketVars >>

LicenseNext ==
  \E t \in Threads :
     \/ validate_begin(t)
     \/ validate_select(t)
     \/ validate_expiry(t)
     \/ validate_already(t)
     \/ validate_limit(t)
     \/ validate_insert(t)
     \/ validate_update(t)
     \/ validate_commit(t)
     \/ validate_raises(t)
     \/ admin_add_code_begin(t)
     \/ admin_add_code_commit(t)
     \/ admin_reset_code_begin(t)
     \/ admin_reset_code_update(t)
     \/ admin_reset_code_delete(t)
     \/ admin_reset_code_commit(t)
     \/ handler_exit(t)

\* the license-code service serving up to MaxServed requests on its threads
SpecLicense == InitLicense /\ [][LicenseNext]_vars

\* --------------------------------------------------------- specifications
StrictNext ==
  \/ Shuffle
  \/ ChooseCounts
  \/ AttemptStart
  \/ PlaceStep
  \/ FinishAttempt
  \/ Fill

FallbackNext ==
  \/ FbIncrement
  \/ FbStartRows
  \/ FbThrees
  \/ FbTwos
  \/ FbOnes
  \/ FbFill

Next == StrictNext \/ FallbackNext

\* one call of generate_ticket_strict, or of _fallback_generate_ticket
Spec == Init /\ [][Next]_vars

\* one call of generate_ticket_strict
SpecStrict == InitStrict /\ [][StrictNext]_vars

\* The request-level specification follows whole requests (up to 360
\* tickets); per ticket it explores the shuffle seeds 0 and MaxSeed, and of the planner's
\* random choices (explored in full by Spec and SpecStrict) the one outcome
\* in which blocks 0 and 1 are the (3,1,1) blocks, the first columns of a
\* block get the extra numbers, and every tie goes to the lowest row.
EndSeeds == cols \in {ShuffledCols(0), ShuffledCols(MaxSeed)}

FirstOutcome ==
  /\ \A c \in ColIdx : c % 3 # 2 => counts[c] >= counts[c + 1]
  /\ counts[6] # 3
  /\ row_used[0] >= row_used[1]
  /\ row_used[1] >= row_used[2]

ApiNext ==
  \/ ApiRequest
  \/ ApiLoop
  \/ ApiAppend
  \/ Shuffle /\ EndSeeds'
  \/ ChooseCounts /\ FirstOutcome'
  \/ AttemptStart
  \/ PlaceStep /\ FirstOutcome'
  \/ FinishAttempt
  \/ Fill

\* one GET /api/tickets request
SpecApi == InitApi /\ [][ApiNext]_vars

\* ----------------------------------------------------------------- claims
\* the ticket a call has returned
Returned == pc = "return"

CellsInRow(t, r) == Cardinality({c \in ColIdx : t[r][c] # 0})
CellsInCol(t, c) == Cardinality({r \in RowIdx : t[r][c] # 0})
CellCount(t) == Cardinality({rc \in RowIdx \X ColIdx : t[rc[1]][rc[2]] # 0})

\* C1: every returned ticket, from generate_ticket_strict or from
\* _fallback_generate_ticket, has exactly 5 non-zero cells in each row.
C1_RowsHaveFive ==
  Returned => \A r \in RowIdx : CellsInRow(ticket, r) = 5

C1_Witness ==
  /\ Returned
  /\ entry = "_fallback_generate_ticket"
  /\ \A r \in RowIdx : CellsInRow(ticket, r) = 5

\* C2: every returned ticket has 1 to 3 non-zero cells in each column and 15
\* non-zero cells in all, on both paths.
C2_ColumnsAndTotal ==
  Returned =>
    /\ \A c \in ColIdx : CellsInCol(ticket, c) \in 1 .. 3
    /\ CellCount(ticket) = 15

C2_Witness ==
  /\ Returned
  /\ entry = "generate_ticket_strict"
  /\ CellsInCol(ticket, 0) = 3
  /\ CellsInCol(ticket, 8) = 1
  /\ CellCount(ticket) = 15

\* a card's inner loop has ended: its six tickets are in all_tickets
CardComplete == pc = "loop" /\ i < count /\ ~(j < TicketsPerCard)

\* C3 as claimed: the tickets of one card jointly contain every number 1-90
\* exactly once.
C3_StripCoversOnce ==
  CardComplete => \A n \in 1 .. 90 : CopiesIn(n, strip) = 1

\* C3 as amended: the tickets of one card jointly hold 90 non-zero cells,
\* each a number of 1-90; a number may occur in several tickets of the card
\* (at most once per ticket, so at most 6 times) and others in none.
C3_StripHoldsNinety ==
  CardComplete =>
    /\ BagCardinality(strip) = 90
    /\ \A n \in BagToSet(strip) : n \in 1 .. 90 /\ CopiesIn(n, strip) <= 6

C3_Witness ==
  /\ CardComplete
  /\ BagCardinality(strip) = 90
  /\ \E n \in 1 .. 90 : CopiesIn(n, strip) >= 2
  /\ \E n \in 1 .. 90 : CopiesIn(n, strip) = 0

\* C4: the response holds 6 * clamp(n, 1, 60) tickets: 6n for n in 1..60,
\* 6 for n <= 0, 360 for n > 60, 6 for a missing or non-integer parameter;
\* no request ends in an error.
C4_Expected(req) ==
  IF req[1] = "int"
  THEN IF req[2] <= 0 THEN 6
       ELSE IF req[2] > 60 THEN 360
       ELSE 6 * req[2]
  ELSE 6

C4_TicketCount ==
  /\ pc # "error"
  /\ pc = "responded" => nAll = C4_Expected(cards)

C4_Witness ==
  /\ pc = "responded"
  /\ cards = << "int", 61 >>
  /\ nAll = 360

\* C5: no pop from an empty pool: when the grid is filled, on either path,
\* every column pool holds at least the numbers drawn from it, and no call
\* ends in an error.
C5_PoolsSuffice ==
  /\ pc # "error"
  /\ pc = "fill" => \A c \in ColIdx : Len(cols[c]) >= counts[c]
  /\ pc = "fb_fill" =>
       \A out \in FbTopUp(0, rows, row_used) :
          \A c \in ColIdx : Len(cols[c]) >= ColSum(out.rows, c)
  /\ Returned =>
       \A c \in ColIdx :
          Len(cols[c]) + CellsInCol(ticket, c) = Len(ColRanges[c])

C5_Witness ==
  /\ Returned
  /\ entry = "_fallback_generate_ticket"
  /\ CellsInCol(ticket, 0) = 3
  /\ Len(cols[0]) = 6

\* An upper bound on the steps a call has still to take: 12 per iteration
\* of the attempt loop not yet started (its head, nine columns, its end), 17
\* for the fallback (six increments, the loops' start, nine columns, the
\* fill), one for the fill.
C6_StepsLeft ==
  CASE pc = "shuffle" -> (40 * 12) + 21
    [] pc = "counts" -> (40 * 12) + 20
    [] pc = "attempt" -> ((40 - attempt) * 12) + 18
    [] pc = "place" -> ((40 - attempt) * 12) + 18 + (9 - pos) + 2
    [] pc = "fill" -> 1
    [] pc = "fb_counts" -> extras + 11
    [] pc = "fb3" ->
         Cardinality(Pending(3, pos)) + Cardinality(Pending(2, 0))
           + Cardinality(Pending(1, 0)) + 1
    [] pc = "fb2" ->
         Cardinality(Pending(2, pos)) + Cardinality(Pending(1, 0)) + 1
    [] pc = "fb1" -> Cardinality(Pending(1, pos)) + 1
    [] pc = "fb_fill" -> 1
    [] OTHER -> 0

\* a call that has not returned has a state-changing step to take: the
\* "while extras > 0" loop has a column below 3 to increment, the loops over
\* the columns have a column to place or are at their end
C6_CanStep ==
  /\ (pc = "fb_counts" /\ extras > 0) => \E c \in ColIdx : counts[c] < 3
  /\ pc = "fb_counts" => extras >= 0
  /\ pc = "place" => pos <= 9
  /\ pc = "fb3" => Pending(3, pos) # {}
  /\ pc = "fb2" => Pending(2, pos) # {}
  /\ pc = "fb1" => Pending(1, pos) # {}
  /\ pc \in {"shuffle", "counts", "attempt", "place", "fill", "fb_counts",
             "fb3", "fb2", "fb1", "fb_fill", "return", "error"}

C7_InRange(c, v) ==
  IF c = 0 THEN v \in 1 .. 9
  ELSE IF c = 8 THEN v \in 80 .. 90
  ELSE v \in (10 * c) .. (10 * c + 9)

\* C7: every non-zero value of a returned ticket lies in its column's range.
C7_ColumnRanges ==
  Returned =>
    \A r \in RowIdx, c \in ColIdx :
       ticket[r][c] # 0 => C7_InRange(c, ticket[r][c])

C7_Witness ==
  /\ Returned
  /\ \E r \in RowIdx : ticket[r][0] \in 1 .. 9
  /\ \E r \in RowIdx : ticket[r][8] \in 80 .. 90
  /\ \E r \in RowIdx : ticket[r][4] \in 40 .. 49

\* C8: in every returned ticket the non-zero values of a column strictly
\* increase from row 0 to row 2, on both paths.
C8_ColumnsAscend ==
  Returned =>
    \A c \in ColIdx : \A r1, r2 \in RowIdx :
       (r1 < r2 /\ ticket[r1][c] # 0 /\ ticket[r2][c] # 0)
          => ticket[r1][c] < ticket[r2][c]

\* a column of three whose numbers were popped in descending order
C8_Witness ==
  /\ Returned
  /\ entry = "_fallback_generate_ticket"
  /\ CellsInCol(ticket, 0) = 3
  /\ ticket[0][0] < ticket[1][0]
  /\ ticket[1][0] < ticket[2][0]

\* C9: the non-zero values of a returned ticket are pairwise distinct.
C9_Distinct ==
  Returned =>
    \A a, b \in RowIdx \X ColIdx :
       (a # b /\ ticket[a[1]][a[2]] # 0 /\ ticket[b[1]][b[2]] # 0)
          => ticket[a[1]][a[2]] # ticket[b[1]][b[2]]

C9_Witness ==
  /\ Returned
  /\ Cardinality({ticket[rc[1]][rc[2]] : rc \in RowIdx \X ColIdx} \ {0}) = 15

\* the column counts of block b of a ticket, as a bag
C10_BlockShape(t, b) ==
  SetToBag({CellsInCol(t, 3 * b)}) (+) SetToBag({CellsInCol(t, 3 * b + 1)})
    (+) SetToBag({CellsInCol(t, 3 * b + 2)})

C10_Shape311 == SetToBag({3}) (+) SetToBag({1}) (+) SetToBag({1})
C10_Shape221 == SetToBag({2}) (+) SetToBag({2}) (+) SetToBag({1})

\* C10: every ticket generate_ticket_strict returns has 5 numbers in each
\* 3-column block; two blocks have column counts (3,1,1) in some order and
\* one block (2,2,1) in some order.
C10_BlockBalance ==
  Returned =>
    /\ \A b \in 0 .. 2 :
          CellsInCol(ticket, 3 * b) + CellsInCol(ticket, 3 * b + 1)
            + CellsInCol(ticket, 3 * b + 2) = 5
    /\ Cardinality({b \in 0 .. 2 : C10_BlockShape(ticket, b) = C10_Shape311}) = 2
    /\ Cardinality({b \in 0 .. 2 : C10_BlockShape(ticket, b) = C10_Shape221}) = 1

C10_Witness ==
  /\ Returned
  /\ C10_BlockShape(ticket, 0) = C10_Shape221
  /\ CellsInCol(ticket, 2) = 1
  /\ C10_BlockShape(ticket, 2) = C10_Shape311

\* the cells of row r of an occupancy matrix
C11_RowSum(rws, r) == Cardinality({c \in ColIdx : rws[r][c] = 1})

\* C11: whenever the attempt loop of generate_ticket_strict exits to the fill
\* step, every row of the occupancy matrix holds 5 cells and every column
\* counts[c] cells; in the ticket returned, cell (r, c) is non-zero exactly
\* when rows[r][c] is 1.
C11_ValidLayout ==
  /\ pc = "fill" =>
       /\ \A r \in RowIdx : C11_RowSum(rows, r) = 5
       /\ \A c \in ColIdx : ColSum(rows, c) = counts[c]
       /\ \A r \in RowIdx, c \in ColIdx : rows[r][c] \in {0, 1}
  /\ Returned =>
       \A r \in RowIdx, c \in ColIdx : (ticket[r][c] # 0) <=> (rows[r][c] = 1)

\* a returned ticket whose first column has its one cell in the bottom row
C11_Witness ==
  /\ Returned
  /\ entry = "generate_ticket_strict"
  /\ rows[0][0] = 0 /\ rows[1][0] = 0 /\ rows[2][0] = 1
  /\ ticket[0][0] = 0 /\ ticket[1][0] = 0 /\ ticket[2][0] # 0

\* C12: for every count vector the "while extras > 0" loop can end with
\* (every vector over {1,2,3} with sum 15) and every tie-break,
\* _fallback_generate_ticket ends with 5 cells in each row and counts[c]
\* cells in each column c; its top-up adds no cell.
C12_FallbackLayout ==
  entry = "_fallback_generate_ticket" =>
    /\ pc = "fb_fill" =>
         \A out \in FbTopUp(0, rows, row_used) :
            /\ out.rows = rows
            /\ \A r \in RowIdx : C11_RowSum(out.rows, r) = 5
            /\ \A c \in ColIdx : ColSum(out.rows, c) = counts[c]
    /\ Returned =>
         /\ \A r \in RowIdx : C11_RowSum(rows, r) = 5
         /\ \A c \in ColIdx : ColSum(rows, c) = counts[c]
         /\ \A c \in ColIdx : CellsInCol(ticket, c) = counts[c]

\* a fallback ticket from three columns of 3 and six of 1
C12_Witness ==
  /\ Returned
  /\ entry = "_fallback_generate_ticket"
  /\ counts[0] = 3 /\ counts[4] = 3 /\ counts[8] = 3
  /\ \A r \in RowIdx : C11_RowSum(rows, r) = 5

\* sum(counts)
C13_Sum(cnts) ==
  cnts[0] + cnts[1] + cnts[2] + cnts[3] + cnts[4] + cnts[5] + cnts[6]
    + cnts[7] + cnts[8]

\* the counts are assigned: control is past lines 504-519, or past the
\* "while extras > 0" loop
C13_Assigned ==
  \/ pc \in {"attempt", "place", "fill", "fb3", "fb2", "fb1", "fb_fill", "return"}
  \/ pc = "fb_counts" /\ extras = 0

\* C13: both count assignments end with 9 counts, each in {1,2,3}, of sum
\* 15; at every iteration of the fallback's loop sum(counts) + extras = 15.
C13_CountsSumFifteen ==
  /\ DOMAIN counts = 0 .. 8
  /\ C13_Assigned =>
       /\ \A c \in ColIdx : counts[c] \in {1, 2, 3}
       /\ C13_Sum(counts) = 15
  /\ pc = "fb_counts" =>
       /\ C13_Sum(counts) + extras = 15
       /\ \A c \in ColIdx : counts[c] \in {1, 2, 3}

\* the fallback's loop part-way, with a column already at 3
C13_Witness ==
  /\ pc = "fb_counts"
  /\ extras = 2
  /\ counts[4] = 3
  /\ C13_Sum(counts) = 13

\* the layout passes the validation of line 580
C14_Passes ==
  /\ ok
  /\ \A r \in RowIdx : row_used[r] = 5
  /\ \A c \in ColIdx : ColSum(rows, c) = counts[c]

C14_FallbackPcs == {"fb_counts", "fb3", "fb2", "fb1", "fb_fill"}

\* C14: at most 40 iterations of the attempt loop are started; an iteration
\* that ends goes to the fill step exactly when its layout passes the
\* validation, and no iteration is started after that; control enters
\* _fallback_generate_ticket only from the loop head with all 40 iterations
\* used, and never comes back to the attempt loop from it.
C14_AttemptLoop ==
  /\ [](attempt <= 40)
  /\ [][(pc = "place" /\ pc' # "place") =>
          IF C14_Passes' THEN pc' = "fill" ELSE pc' = "attempt"]_vars
  /\ [][(pc \in {"fill", "return"}) =>
          (attempt' = attempt /\ pc' \in {"fill", "return"})]_vars
  /\ [][(pc \notin C14_FallbackPcs /\ pc' \in C14_FallbackPcs) =>
          (pc = "attempt" /\ attempt = 40)]_vars
  /\ [][(pc \in C14_FallbackPcs) =>
          pc' \in (C14_FallbackPcs \cup {"return", "error"})]_vars

\* the loop left at its first iteration, whose layout passed
C14_Witness ==
  /\ pc = "fill"
  /\ attempt = 1
  /\ C14_Passes

\* pool is the whole range of column c, in some order
C15_FullPool(pool, c) ==
  /\ Len(pool) = Len(ColRanges[c])
  /\ {pool[n] : n \in 1 .. Len(pool)} =
       {ColRanges[c][n] : n \in 1 .. Len(ColRanges[c])}

\* C15: within a request, every call of generate_ticket_strict starts with
\* nine pools holding their complete ranges and with fresh locals, whatever
\* the tickets before it drew; the pools stay complete until the fill step.
C15_FreshPools ==
  /\ pc = "shuffle" => FreshFrame
  /\ pc \in {"counts", "attempt", "place", "fill"} =>
       \A c \in ColIdx : C15_FullPool(cols[c], c)

\* the second ticket of a card about to be planned; the first drew 15 numbers
C15_Witness ==
  /\ pc = "counts"
  /\ nAll >= 1
  /\ j >= 1
  /\ \A c \in ColIdx : C15_FullPool(cols[c], c)

\* the order of the claim: from the centre columns outward
C16_CenterOut == << 4, 3, 5, 2, 6, 1, 7, 0, 8 >>

\* The procedure of the claim: the columns are taken in the order above from
\* position k, each incremented while it is below 3, until no unit is left.
RECURSIVE C16_Distribute(_, _, _)
C16_Distribute(cnts, k, left) ==
  IF left = 0 \/ k > 9 THEN cnts
  ELSE IF cnts[C16_CenterOut[k]] < 3
  THEN C16_Distribute([cnts EXCEPT ![C16_CenterOut[k]] = @ + 1], k, left - 1)
  ELSE C16_Distribute(cnts, k + 1, left)

\* The same read as one unit per column and pass over the order.
RECURSIVE C16_RoundRobin(_, _, _)
C16_RoundRobin(cnts, k, left) ==
  IF left = 0 THEN cnts
  ELSE IF k > 9 THEN C16_RoundRobin(cnts, 1, left)
  ELSE IF cnts[C16_CenterOut[k]] < 3
  THEN C16_RoundRobin([cnts EXCEPT ![C16_CenterOut[k]] = @ + 1], k + 1, left - 1)
  ELSE C16_RoundRobin(cnts, k + 1, left)

C16_CountsChosen == pc \in {"attempt", "place", "fill"}

\* C16 as claimed: the counts generate_ticket_strict assigns are those of
\* the centre-outward distribution of 6 units over columns starting at 1.
C16_CenterOutward ==
  C16_CountsChosen =>
    counts \in {C16_Distribute(Ones, 1, 6), C16_RoundRobin(Ones, 1, 6)}

\* the counts of block b, as a bag
C16_BlockCounts(b) ==
  SetToBag({counts[3 * b]}) (+) SetToBag({counts[3 * b + 1]})
    (+) SetToBag({counts[3 * b + 2]})

\* C16 as amended: all columns start at 1; in two of the three blocks one
\* column gets 2 more (3,1,1) and in the third block two columns get 1 more
\* (2,2,1), so that every block has 5 and the total is 15; no column order
\* is preferred.
C16_BlockAssigned ==
  C16_CountsChosen =>
    /\ \A b \in 0 .. 2 : C16_BlockCounts(b) \in {C10_Shape311, C10_Shape221}
    /\ Cardinality({b \in 0 .. 2 : C16_BlockCounts(b) = C10_Shape311}) = 2
    /\ Cardinality({b \in 0 .. 2 : C16_BlockCounts(b) = C10_Shape221}) = 1
    /\ C13_Sum(counts) = 15

\* counts whose extra units lie at the edges, the centre column at 1
C16_Witness ==
  /\ pc = "attempt"
  /\ counts[0] = 3
  /\ counts[8] = 3
  /\ counts[4] = 1
  /\ counts[3] = 2 /\ counts[5] = 2

\* the columns the current attempt has placed
C17_Placed == {c \in ColIdx : ColSum(rows, c) > 0}

\* C17: at every point of an attempt of generate_ticket_strict, the columns
\* already placed are pos columns whose counts are at least the count of
\* every column not yet placed: the 3s come before the 2s and the 2s before
\* the 1s.
C17_DescendingOrder ==
  (pc = "place" /\ ok) =>
    /\ Cardinality(C17_Placed) = pos
    /\ \A c \in C17_Placed : \A d \in ColIdx \ C17_Placed :
          counts[c] >= counts[d]

\* both 3s and one 2 are placed, a 2 and the 1s are to come
C17_Witness ==
  /\ pc = "place"
  /\ ok
  /\ pos = 3
  /\ \E c \in C17_Placed : counts[c] = 2
  /\ \E d \in ColIdx \ C17_Placed : counts[d] = 2
  /\ \E d \in ColIdx \ C17_Placed : counts[d] = 1

\* the rows that get a cell of column ci in the step
C18_Chosen(ci) == {r \in RowIdx : rows[r][ci] = 0 /\ rows'[r][ci] = 1}

\* C18: a step that places a column of count 2, in generate_ticket_strict or
\* in _fallback_generate_ticket, gives it two rows, and no row left out had
\* a smaller used-count before the step than a row chosen; a step that
\* places a column of count 1 gives it one row, whose used-count before the
\* step was the least of all rows.
C18_LeastUsedRows ==
  [][(\A ci \in ColIdx :
        (ColSum(rows, ci) = 0 /\ ColSum(rows', ci) > 0 /\ counts[ci] \in {1, 2})
          => /\ Cardinality(C18_Chosen(ci)) = counts[ci]
             /\ \A r \in C18_Chosen(ci) : \A u \in RowIdx \ C18_Chosen(ci) :
                   row_used[u] >= row_used[r])]_vars

\* the fallback's loop over the 1s under way: a column of 2 and a column of
\* 1 have been placed, and the rows are not level
C18_Witness ==
  /\ pc = "fb1"
  /\ \E ci \in ColIdx : counts[ci] = 2 /\ ColSum(rows, ci) = 2
  /\ \E ci \in ColIdx : counts[ci] = 1 /\ ColSum(rows, ci) = 1
  /\ \E r, u \in RowIdx : row_used[r] < row_used[u]

\* row r has a cell in the third-of-grid of column ci
C19_InThird(rws, r, ci) == \E c \in BlockCols(ci \div 3) : rws[r][c] = 1

\* the least-used rows
C19_Least(used) == {r \in RowIdx : \A u \in RowIdx : used[r] <= used[u]}

\* the least-used rows without a cell in the third of column ci
C19_Lacking(rws, used, ci) ==
  {r \in C19_Least(used) : ~C19_InThird(rws, r, ci)}

C19_NextColumn == Order(counts)[pos + 1]

\* in generate_ticket_strict, when a column of count 1 is about to be
\* placed, every row has a cell in its third-of-grid
C19_StrictAllRepresented ==
  (entry = "generate_ticket_strict" /\ pc = "place" /\ ok /\ pos < NumCols
     /\ counts[C19_NextColumn] = 1)
    => \A r \in RowIdx : C19_InThird(rows, r, C19_NextColumn)

\* every least-used row is a possible choice for the column of count 1 that
\* generate_ticket_strict places next
C19_StrictAnyLeast ==
  (entry = "generate_ticket_strict" /\ pc = "place" /\ ok /\ pos < NumCols
     /\ counts[C19_NextColumn] = 1)
    => \A r \in C19_Least(row_used) :
          \E out \in PlaceColumn(rows, row_used, counts, C19_NextColumn) :
             out.rows[r][C19_NextColumn] = 1

\* every least-used row, with or without a cell in the third, is a possible
\* choice for the column of count 1 that _fallback_generate_ticket places
\* next
C19_FallbackAnyLeast ==
  pc = "fb1"
    => \A r \in C19_Least(row_used) :
          \E p \in RowOrders(row_used) :
             PlaceRows(p, 1, rows, row_used, NextPending(1, pos), 1, FALSE)
               .rows[r][NextPending(1, pos)] = 1

C20_FirstAttemptPasses ==
  /\ attempt <= 1
  /\ ok
  /\ pc \notin (C14_FallbackPcs \cup {"error"})
  /\ (pc = "place" /\ pos = NumCols) =>
       /\ \A r \in RowIdx : row_used[r] = 5
       /\ TopUp(0, rows, row_used, counts) =
            {[rows |-> rows, used |-> row_used, ok |-> TRUE]}
       /\ Validates(TRUE, rows, row_used, counts)

\* the nine columns of the first iteration are placed, the top-up is next
C20_Witness ==
  /\ pc = "place"
  /\ pos = NumCols
  /\ attempt = 1
  /\ \A r \in RowIdx : row_used[r] = 5
  /\ counts[0] = 2 /\ counts[1] = 2

\* control is in the loops that place the columns, or just past them
C25_Placing ==
  \/ pc = "place" /\ ok
  \/ pc \in {"fb3", "fb2", "fb1", "fb_fill"}

\* C25: while generate_ticket_strict and _fallback_generate_ticket place the
\* columns, after each column the used-counts of the three rows differ by at
\* most 1 and none exceeds 5.
C25_RowsLevel ==
  C25_Placing =>
    /\ \A r, u \in RowIdx : row_used[r] - row_used[u] <= 1
    /\ \A r \in RowIdx : row_used[r] <= 5

\* the fallback's loop over the 2s under way, one row a cell behind
C25_Witness ==
  /\ pc = "fb2"
  /\ \E ci \in ColIdx : counts[ci] = 2 /\ ColSum(rows, ci) = 2
  /\ \E r, u \in RowIdx : row_used[u] = row_used[r] + 1

\* --------------------------------------------- claims on the license service
\* C21: at every reachable state, whatever the interleaving of validate,
\* admin_add_code and admin_reset_code requests, no code has more devices
\* registered in activations than its current MaxDevices.
C21_WithinMaxDevices ==
  \A n \in 1 .. Len(codes) :
     CountActivations(activations, codes[n].Code) <= GetMaxDevices(codes[n])

\* the reasons validate gives with valid = false
C22_Invalid ==
  {"empty_code", "missing_device_id", "not_found", "expired", "device_limit",
   "server_error"}

\* thread t answers its validate request with valid = false in this step
C22_Answers(t) ==
  /\ reply[t] = "none"
  /\ reply'[t] \in C22_Invalid
  /\ loc'[t].handler = "validate"

\* thread t finishes a validate request answered with valid = false
C22_Leaves(t) ==
  /\ loc[t].handler = "validate"
  /\ reply[t] \in C22_Invalid
  /\ lpc[t] = "exit"
  /\ lpc'[t] = "idle"

\* C22: a validate request answered with valid = false (empty_code,
\* missing_device_id, not_found, expired, device_limit, server_error) leaves
\* codes and activations as they were: neither the step that answers nor the
\* one that ends the request changes a table, and when the request took the
\* lock the tables are still those it found on taking it.
C22_InvalidChangesNothing ==
  [][\A t \in Threads :
       (C22_Answers(t) \/ C22_Leaves(t)) =>
          /\ codes' = codes
          /\ activations' = activations
          /\ (lock = t => Tables = atAcquire)]_vars

C22_Witness ==
  \E t \in Threads :
     /\ loc[t].handler = "validate"
     /\ lock = t
     /\ reply[t] = "server_error"
     /\ loc[t].row # << >>
     /\ loc[t].row[1].Used = "No"
     /\ loc[t].buyer = "bob"

\* thread t is at the end of a validate request that held the lock
C23_Validated(t) ==
  /\ loc[t].handler = "validate"
  /\ lpc[t] = "exit"
  /\ lock = t

\* when thread t took the lock, its request's code was stored and unexpired
\* and its device was registered for it
C23_Registered(t) ==
  /\ \E n \in 1 .. Len(atAcquire.codes) :
        /\ atAcquire.codes[n].Code = loc[t].code
        /\ ~Expired(atAcquire.codes[n])
  /\ << loc[t].code, loc[t].device_id >> \in atAcquire.activations

\* C23: validating an unexpired code from a device already registered for it
\* answers ok_same_device, also when the code's device limit is reached, and
\* leaves codes and activations unchanged.
C23_SameDeviceAgain ==
  \A t \in Threads :
     (C23_Validated(t) /\ C23_Registered(t)) =>
        /\ reply[t] = "ok_same_device"
        /\ Tables = atAcquire

\* thread t is at the end of an admin_reset_code request that reset a code
C24_Reset(t) ==
  /\ loc[t].handler = "admin_reset_code"
  /\ lpc[t] = "exit"
  /\ reply[t] = "ok_reset"

\* after the reset the code has no activation rows and Used = 'No'
C24_ResetClears ==
  \A t \in Threads :
     C24_Reset(t) =>
        /\ \A a \in activations : a[1] # loc[t].code
        /\ \A n \in 1 .. Len(codes) :
              codes[n].Code = loc[t].code => codes[n].Used = "No"

\* thread t validates the code that the previous holder of the lock reset,
\* which is unexpired and allows a device
C24_NextValidate(t) ==
  /\ C23_Validated(t)
  /\ lastReset = loc[t].code
  /\ \E n \in 1 .. Len(atAcquire.codes) :
        /\ atAcquire.codes[n].Code = loc[t].code
        /\ ~Expired(atAcquire.codes[n])
        /\ GetMaxDevices(atAcquire.codes[n]) >= 1

\* C24: once admin_reset_code of a stored code has completed, the code has
\* no activation rows and Used = 'No', and the next validate of that code
\* (unexpired, MaxDevices >= 1), from whatever device, answers ok_new_device
\* and registers the device (unless sqlite fails the request: server_error).
C24_ResetThenNewDevice ==
  /\ C24_ResetClears
  /\ \A t \in Threads :
        C24_NextValidate(t) =>
           \/ reply[t] = "server_error"
           \/ /\ reply[t] = "ok_new_device"
              /\ << loc[t].code, loc[t].device_id >> \in activations

====
